---- MODULE Spec2Model ----
(***************************************************************************)
(* Model of the Particle / Distribution classes of 2d_distribution.py and  *)
(* 3d_distribution.py.                                                     *)
(*                                                                         *)
(* A Distribution object is the variable `particles` (self.particles), a   *)
(* sequence of Particle objects.  A Particle object is named by its        *)
(* identity, an index into Pool: Particle defines no __eq__, so two        *)
(* particles are equal exactly when they are the same object.              *)
(*                                                                         *)
(* Numbers.  Coordinates and charges are integers and the positions lie on *)
(* the corners of a rectangle whose sides and diagonals have integer       *)
(* length, so every delta_r is an integer.  A field value is the exact     *)
(* rational k*q*delta/delta_r^3 written in units of k/EScale, a potential  *)
(* k*q/delta_r in units of k/VScale, both integers.  Division by a zero    *)
(* delta_r is the ZeroDivisionError Python raises.                         *)
(***************************************************************************)
EXTENDS Integers, Sequences, FiniteSets

\* Longest particle list the model builds.
MaxLen == 3
\* Longest list handed to add_particles or to the constructor.
MaxBatch == 2

\* Python's None (labels are drawn from Labels, none of which equals it).
None == "None"
Labels == {"A", "B"}
\* Labels a caller may ask for: the labels in use, one never used, and None.
LabelArgs == Labels \cup {"C", None}

\* Exceptions, by the message the source raises them with.
NoExc == "none"
DuplicateLabel == "ValueError: Particle label already in use."
LabelNotFound == "ValueError: Particle label not found."
ZeroDivisionError == "ZeroDivisionError: float division by zero"
NotInList == "ValueError: list.remove(x): x not in list"

VARIABLES dim, phase, particles, op, pre, ret, calls
vars == <<dim, phase, particles, op, pre, ret, calls>>

----------------------------------------------------------------------------
(* Particle *)

\* Corners of a 3 x 4 rectangle in the plane.
Positions2 == << <<0, 0>>, <<3, 0>>, <<0, 4>>, <<3, 4>> >>
\* Corners of a 9 x 12 rectangle in space, sides (3,6,6) and (8,4,-8).
Positions3 == << <<0, 0, 0>>, <<3, 6, 6>>, <<8, 4, -8>>, <<11, 10, -2>> >>
Positions == IF dim = 2 THEN Positions2 ELSE Positions3

\* The Particle objects the caller has constructed: where (an index into
\* Positions), charge q and label.  Objects 1 and 4 share a position,
\* 1 and 5 share a label, 3 and 4 are both unlabelled.
Pool == << [at |-> 1, q |-> 1,  label |-> "A"],
           [at |-> 2, q |-> -2, label |-> "B"],
           [at |-> 3, q |-> 1,  label |-> None],
           [at |-> 1, q |-> 2,  label |-> None],
           [at |-> 4, q |-> -1, label |-> "A"] >>
ParticleIds == DOMAIN Pool

pos(p) == Positions[Pool[p].at]
charge(p) == Pool[p].q
label(p) == Pool[p].label

\* Units: a field is an integer multiple of k/EScale, a potential of k/VScale.
EScale == IF dim = 2 THEN 27 * 64 * 125 ELSE 64 * 729 * 125
VScale == 2 * 180

Square(n) == n * n
RECURSIVE SumSeq(_)
SumSeq(s) == IF s = <<>> THEN 0 ELSE Head(s) + SumSeq(Tail(s))
\* n ** 0.5 for the perfect squares the positions produce.
Sqrt(n) == CHOOSE r \in 0..20 : r * r = n

delta(p, pt) == [i \in DOMAIN pt |-> pt[i] - pos(p)[i]]
delta_r(p, pt) == Sqrt(SumSeq([i \in DOMAIN pt |-> Square(delta(p, pt)[i])]))

\* Particle.E: E_mag = k*q/delta_r**2, component = E_mag * (delta/delta_r).
Particle_E(p, pt) ==
  LET r == delta_r(p, pt) IN
  IF r = 0 THEN [exc |-> ZeroDivisionError, value |-> <<>>]
  ELSE [exc |-> NoExc,
        value |-> [i \in DOMAIN pt |->
                     (charge(p) * delta(p, pt)[i] * EScale) \div (r * r * r)]]

\* Particle.V: k*q/delta_r.
Particle_V(p, pt) ==
  LET r == delta_r(p, pt) IN
  IF r = 0 THEN [exc |-> ZeroDivisionError, value |-> 0]
  ELSE [exc |-> NoExc, value |-> (charge(p) * VScale) \div r]

----------------------------------------------------------------------------
(* Distribution *)

\* x in s, for a Python list s.
InList(x, s) == \E i \in DOMAIN s : s[i] = x

labels_withNone(ps) == [i \in DOMAIN ps |-> label(ps[i])]
\* Distribution.labels: the labels that are not None, in list order.
labels(ps) ==
  SelectSeq([i \in DOMAIN ps |-> label(ps[i])], LAMBDA l : l # None)

add_particle_unchecked(ps, particle) ==
  [particles |-> Append(ps, particle), exc |-> NoExc]
\* Distribution.add_particle.
add_particle(ps, particle) ==
  IF InList(label(particle), labels(ps))
  THEN [particles |-> ps, exc |-> DuplicateLabel]
  ELSE [particles |-> Append(ps, particle), exc |-> NoExc]

RECURSIVE add_particles_loop(_, _)
add_particles_loop(ps, todo) ==
  IF todo = <<>> THEN [particles |-> ps, exc |-> NoExc]
  ELSE LET r == add_particle(ps, Head(todo)) IN
       IF r.exc # NoExc THEN r
       ELSE add_particles_loop(r.particles, Tail(todo))

add_particles_rollback(ps, batch) ==
  LET r == add_particles_loop(ps, batch) IN
  IF r.exc # NoExc THEN [particles |-> ps, exc |-> r.exc] ELSE r
\* Distribution.add_particles.
add_particles(ps, batch) == add_particles_loop(ps, batch)

get_particle_anyLabel(ps, lbl) ==
  IF InList(lbl, labels_withNone(ps))
  THEN [exc |-> NoExc,
        value |-> ps[CHOOSE i \in DOMAIN ps :
                       /\ lbl = label(ps[i])
                       /\ \A j \in 1..(i - 1) : lbl # label(ps[j])]]
  ELSE [exc |-> LabelNotFound, value |-> 0]
\* Distribution.get_particle: the first particle of the list whose label
\* equals lbl, when lbl is among the labels.
get_particle(ps, lbl) ==
  IF InList(lbl, labels(ps))
  THEN [exc |-> NoExc,
        value |-> ps[CHOOSE i \in DOMAIN ps :
                       /\ lbl = label(ps[i])
                       /\ \A j \in 1..(i - 1) : lbl # label(ps[j])]]
  ELSE [exc |-> LabelNotFound, value |-> 0]

\* exclude = [] when the argument is None (not given).
exclude_or_default(arg) == IF arg.given THEN arg.list ELSE {}

Zero == [i \in 1..dim |-> 0]
VecAdd(u, v) == [i \in DOMAIN u |-> u[i] + v[i]]

\* One evaluation of Particle.E or Particle.V: of particle p, at a point.
Call(p, pt) == [p |-> p, at |-> pt]

\* The loop of Distribution.E over the rest of self.particles; tot is
\* (E_tot_x, E_tot_y[, E_tot_z]) and done the evaluations made so far.
RECURSIVE E_loop(_, _, _, _, _)
E_loop(rest, pt, exclude, tot, done) ==
  IF rest = <<>> THEN [exc |-> NoExc, value |-> tot, calls |-> done]
  ELSE LET particle == Head(rest) IN
       IF label(particle) \in exclude
       THEN E_loop(Tail(rest), pt, exclude, tot, done)
       ELSE LET e == Particle_E(particle, pt)
                done2 == Append(done, Call(particle, pt))
            IN IF e.exc # NoExc
               THEN [exc |-> e.exc, value |-> <<>>, calls |-> done2]
               ELSE E_loop(Tail(rest), pt, exclude, VecAdd(tot, e.value), done2)

Distribution_E_noExclude(ps, pt, arg) == E_loop(ps, pt, {}, Zero, <<>>)
\* Distribution.E.
Distribution_E(ps, pt, arg) ==
  E_loop(ps, pt, exclude_or_default(arg), Zero, <<>>)

RECURSIVE V_loop(_, _, _, _, _)
V_loop(rest, pt, exclude, V_tot, done) ==
  IF rest = <<>> THEN [exc |-> NoExc, value |-> V_tot, calls |-> done]
  ELSE LET particle == Head(rest) IN
       IF label(particle) \in exclude
       THEN V_loop(Tail(rest), pt, exclude, V_tot, done)
       ELSE LET v == Particle_V(particle, pt)
                done2 == Append(done, Call(particle, pt))
            IN IF v.exc # NoExc
               THEN [exc |-> v.exc, value |-> 0, calls |-> done2]
               ELSE V_loop(Tail(rest), pt, exclude, V_tot + v.value, done2)

\* Distribution.V (3D).
Distribution_V(ps, pt, arg) ==
  V_loop(ps, pt, exclude_or_default(arg), 0, <<>>)

Given(list) == [given |-> TRUE, list |-> list]
NotGiven == [given |-> FALSE, list |-> {}]

F_noExclude(ps, lbl) ==
  LET g == get_particle(ps, lbl) IN
  IF g.exc # NoExc THEN [exc |-> g.exc, value |-> <<>>, calls |-> <<>>]
  ELSE LET e == Distribution_E(ps, pos(g.value), NotGiven) IN
       IF e.exc # NoExc THEN e
       ELSE [exc |-> NoExc,
             value |-> [i \in DOMAIN e.value |-> charge(g.value) * e.value[i]],
             calls |-> e.calls]
\* Distribution.F.
F(ps, lbl) ==
  LET g == get_particle(ps, lbl) IN
  IF g.exc # NoExc THEN [exc |-> g.exc, value |-> <<>>, calls |-> <<>>]
  ELSE LET e == Distribution_E(ps, pos(g.value), Given({lbl})) IN
       IF e.exc # NoExc THEN e
       ELSE [exc |-> NoExc,
             value |-> [i \in DOMAIN e.value |-> charge(g.value) * e.value[i]],
             calls |-> e.calls]

\* list.remove(x): s without its first element equal to x.
Remove(s, x) ==
  LET i == CHOOSE n \in DOMAIN s : s[n] = x /\ \A m \in 1..(n - 1) : s[m] # x
  IN SubSeq(s, 1, i - 1) \o SubSeq(s, i + 1, Len(s))

\* The loop of Distribution.U over the copy of the list: ps is
\* self.particles, tot is U_tot_double.
RECURSIVE U_loop(_, _, _, _)
U_loop(todo, ps, tot, done) ==
  IF todo = <<>>
  THEN [exc |-> NoExc, value |-> tot \div 2, particles |-> ps, calls |-> done]
  ELSE LET particle == Head(todo) IN
       IF ~InList(particle, ps)
       THEN [exc |-> NotInList, value |-> 0, particles |-> ps, calls |-> done]
       ELSE LET removed == Remove(ps, particle)
                v == Distribution_V(removed, pos(particle), NotGiven)
            IN IF v.exc # NoExc
               THEN [exc |-> v.exc, value |-> 0, particles |-> removed,
                     calls |-> done \o v.calls]
               ELSE U_loop(Tail(todo), Append(removed, particle),
                           tot + charge(particle) * v.value, done \o v.calls)

RECURSIVE U_loop_prepend(_, _, _, _)
U_loop_prepend(todo, ps, tot, done) ==
  IF todo = <<>>
  THEN [exc |-> NoExc, value |-> tot \div 2, particles |-> ps, calls |-> done]
  ELSE LET particle == Head(todo) IN
       IF ~InList(particle, ps)
       THEN [exc |-> NotInList, value |-> 0, particles |-> ps, calls |-> done]
       ELSE LET removed == Remove(ps, particle)
                v == Distribution_V(removed, pos(particle), NotGiven)
            IN IF v.exc # NoExc
               THEN [exc |-> v.exc, value |-> 0, particles |-> removed,
                     calls |-> done \o v.calls]
               ELSE U_loop_prepend(Tail(todo), <<particle>> \o removed,
                           tot + charge(particle) * v.value, done \o v.calls)

U_prepend(ps) == U_loop_prepend(ps, ps, 0, <<>>)
U_noHalf(ps) ==
  LET r == U_loop(ps, ps, 0, <<>>) IN
  IF r.exc = NoExc THEN [r EXCEPT !.value = 2 * r.value] ELSE r
\* Distribution.U (3D).
U(ps) == U_loop(ps, ps, 0, <<>>)

----------------------------------------------------------------------------
(* The caller *)

RECURSIVE SeqsUpTo(_, _)
SeqsUpTo(S, n) ==
  IF n = 0 THEN {<<>>}
  ELSE LET shorter == SeqsUpTo(S, n - 1) IN
       shorter \cup {Append(s, x) : s \in shorter, x \in S}
Batches == SeqsUpTo(ParticleIds, MaxBatch)

NoOp == [name |-> "none", particle |-> 0, batch |-> <<>>, label |-> None,
         point |-> <<>>, exclude |-> [given |-> FALSE, list |-> {}]]

\* The two source files, and self.particles = [] of __init__.
Init ==
  /\ dim \in {2, 3}
  /\ phase = "new"
  /\ particles = <<>>
  /\ op = NoOp
  /\ pre = <<>>
  /\ ret = [exc |-> NoExc, value |-> 0]
  /\ calls = <<>>

\* Distribution(): particles is None, nothing is added.
InitDefault ==
  /\ phase = "new"
  /\ phase' = "ready"
  /\ op' = [NoOp EXCEPT !.name = "__init__"]
  /\ pre' = particles
  /\ ret' = [exc |-> NoExc, value |-> 0]
  /\ calls' = <<>>
  /\ UNCHANGED <<dim, particles>>

\* Distribution(batch): the list goes through add_particles.  When it raises
\* the constructor raises and the caller holds no object to call.
InitFrom(batch) ==
  /\ phase = "new"
  /\ LET r == add_particles(particles, batch) IN
     /\ particles' = r.particles
     /\ ret' = [exc |-> r.exc, value |-> 0]
     /\ phase' = IF r.exc = NoExc THEN "ready" ELSE "dead"
  /\ op' = [NoOp EXCEPT !.name = "__init__", !.batch = batch]
  /\ pre' = particles
  /\ calls' = <<>>
  /\ UNCHANGED dim

AddParticle(particle) ==
  /\ phase = "ready"
  /\ Len(particles) < MaxLen
  /\ LET r == add_particle(particles, particle) IN
     /\ particles' = r.particles
     /\ ret' = [exc |-> r.exc, value |-> 0]
  /\ op' = [NoOp EXCEPT !.name = "add_particle", !.particle = particle]
  /\ pre' = particles
  /\ calls' = <<>>
  /\ UNCHANGED <<dim, phase>>

AddParticles(batch) ==
  /\ phase = "ready"
  /\ Len(particles) + Len(batch) <= MaxLen
  /\ LET r == add_particles(particles, batch) IN
     /\ particles' = r.particles
     /\ ret' = [exc |-> r.exc, value |-> 0]
  /\ op' = [NoOp EXCEPT !.name = "add_particles", !.batch = batch]
  /\ pre' = particles
  /\ calls' = <<>>
  /\ UNCHANGED <<dim, phase>>

GetParticle(lbl) ==
  /\ phase = "ready"
  /\ LET r == get_particle(particles, lbl) IN ret' = r
  /\ op' = [NoOp EXCEPT !.name = "get_particle", !.label = lbl]
  /\ pre' = particles
  /\ calls' = <<>>
  /\ UNCHANGED <<dim, phase, particles>>

FieldE(pt, arg) ==
  /\ phase = "ready"
  /\ LET r == Distribution_E(particles, pt, arg) IN
     /\ ret' = [exc |-> r.exc, value |-> r.value]
     /\ calls' = r.calls
  /\ op' = [NoOp EXCEPT !.name = "E", !.point = pt, !.exclude = arg]
  /\ pre' = particles
  /\ UNCHANGED <<dim, phase, particles>>

PotentialV(pt, arg) ==
  /\ phase = "ready"
  /\ dim = 3
  /\ LET r == Distribution_V(particles, pt, arg) IN
     /\ ret' = [exc |-> r.exc, value |-> r.value]
     /\ calls' = r.calls
  /\ op' = [NoOp EXCEPT !.name = "V", !.point = pt, !.exclude = arg]
  /\ pre' = particles
  /\ UNCHANGED <<dim, phase, particles>>

ForceF(lbl) ==
  /\ phase = "ready"
  /\ LET r == F(particles, lbl) IN
     /\ ret' = [exc |-> r.exc, value |-> r.value]
     /\ calls' = r.calls
  /\ op' = [NoOp EXCEPT !.name = "F", !.label = lbl]
  /\ pre' = particles
  /\ UNCHANGED <<dim, phase, particles>>

EnergyU ==
  /\ phase = "ready"
  /\ dim = 3
  /\ LET r == U(particles) IN
     /\ particles' = r.particles
     /\ ret' = [exc |-> r.exc, value |-> r.value]
     /\ calls' = r.calls
  /\ op' = [NoOp EXCEPT !.name = "U"]
  /\ pre' = particles
  /\ UNCHANGED <<dim, phase>>

\* Observation points: two occupied by particles that have a label, one by a
\* particle that has none.
Points == {Positions[1], Positions[2], Positions[3]}
\* exclude arguments: not given, empty, a label, None, and mixtures.
ExcludeArgs == {NotGiven, Given({}), Given({"A"}), Given({None}),
                Given({"A", "B"}), Given({"B", "C", None})}

Next ==
  \/ InitDefault
  \/ \E batch \in Batches : InitFrom(batch)
  \/ \E particle \in ParticleIds : AddParticle(particle)
  \/ \E batch \in Batches : AddParticles(batch)
  \/ \E lbl \in LabelArgs : GetParticle(lbl)
  \/ \E pt \in Points, arg \in ExcludeArgs : FieldE(pt, arg)
  \/ \E pt \in Points, arg \in ExcludeArgs : PotentialV(pt, arg)
  \/ \E lbl \in LabelArgs : ForceF(lbl)
  \/ EnergyU

Spec == Init /\ [][Next]_vars

----------------------------------------------------------------------------
(* Properties.  op, pre, ret and calls describe the last call: its name and *)
(* arguments, self.particles before it, what it returned or raised, and the *)
(* Particle.E / Particle.V evaluations it made.                             *)

Held(ps, lbl) == lbl # None /\ \E i \in DOMAIN ps : label(ps[i]) = lbl
NoDuplicates(ps) == \A i, j \in DOMAIN ps : i # j => ps[i] # ps[j]
DistinctPositions(ps) ==
  \A i, j \in DOMAIN ps : i # j => pos(ps[i]) # pos(ps[j])
OccursAt(ps, pt) == \E i \in DOMAIN ps : pos(ps[i]) = pt

\* C1: in every reachable state, whatever calls were made and whether they
\* failed, no two entries of the particle list carry the same non-null label.
C1_UniqueLabels ==
  \A i, j \in DOMAIN particles :
    (i # j /\ label(particles[i]) # None)
      => label(particles[i]) # label(particles[j])

\* C1 witness: a colliding add_particle was refused on a list that holds two
\* labelled particles.
C1_Witness ==
  /\ op.name = "add_particle"
  /\ ret.exc = DuplicateLabel
  /\ Held(particles, "A") /\ Held(particles, "B")

\* C2: add_particle(p) raises the duplicate-label error exactly when p.label
\* is not None and some held particle has that label, and then leaves the
\* list unchanged; otherwise it does not raise and appends p at the end.
C2_AddParticle ==
  op.name = "add_particle" =>
    LET p == op.particle
        dup == Held(pre, label(p))
    IN /\ (ret.exc = DuplicateLabel) <=> dup
       /\ dup => particles = pre
       /\ ~dup => (ret.exc = NoExc /\ particles = Append(pre, p))

\* C2 witness: an unlabelled particle was added to a list that already held
\* two unlabelled particles.
C2_Witness ==
  /\ op.name = "add_particle"
  /\ label(op.particle) = None
  /\ \E i, j \in DOMAIN pre :
       i # j /\ label(pre[i]) = None /\ label(pre[j]) = None
  /\ particles = Append(pre, op.particle)

\* The element of batch at index i collides with a particle of ps or with
\* an earlier element of batch.
Collides(ps, batch, i) ==
  Held(ps \o SubSeq(batch, 1, i - 1), label(batch[i]))

\* C3: add_particles(list) and construction from a list add the elements in
\* list order; when index i is the first to collide the duplicate-label error
\* is raised and the list is the old list followed by the elements before i;
\* when none collides nothing is raised and all are appended.
C3_AddParticles ==
  op.name \in {"add_particles", "__init__"} =>
    LET batch == op.batch
        failing == {i \in DOMAIN batch : Collides(pre, batch, i)}
    IN IF failing = {}
       THEN ret.exc = NoExc /\ particles = pre \o batch
       ELSE LET i == CHOOSE n \in failing : \A m \in failing : n <= m IN
            /\ ret.exc = DuplicateLabel
            /\ particles = pre \o SubSeq(batch, 1, i - 1)

\* C3 witness: add_particles on a non-empty list failed at its second
\* element after adding its first.
C3_Witness ==
  /\ op.name = "add_particles"
  /\ pre # <<>>
  /\ ret.exc = DuplicateLabel
  /\ Len(op.batch) = 2
  /\ particles = Append(pre, op.batch[1])

\* C4: get_particle(L) returns the particle that was added with label L (the
\* first of the list whose label is L) for every held non-null L, raises
\* label-not-found for every other L, None included, and never changes the
\* list.
C4_GetParticle ==
  op.name = "get_particle" =>
    /\ particles = pre
    /\ IF Held(pre, op.label)
       THEN /\ ret.exc = NoExc
            /\ \A i \in DOMAIN pre :
                 label(pre[i]) = op.label => ret.value = pre[i]
       ELSE ret.exc = LabelNotFound

\* C4 witness: a labelled particle that is not the first of the list was
\* returned from a list that also holds an unlabelled particle.
C4_Witness ==
  /\ op.name = "get_particle"
  /\ ret.exc = NoExc
  /\ pre[1] # ret.value
  /\ \E i \in DOMAIN pre : label(pre[i]) = None

\* C5 (as claimed): whenever E or V returns, every held particle whose label
\* is None was evaluated, whatever the exclude list, a list containing None
\* included.
C5_NullNeverExcluded ==
  (op.name \in {"E", "V"} /\ ret.exc = NoExc) =>
    \A i \in DOMAIN pre :
      label(pre[i]) = None => \E c \in DOMAIN calls : calls[c].p = pre[i]

\* The particles Distribution.E does not skip.
Kept(ps, exclude) == SelectSeq(ps, LAMBDA p : label(p) \notin exclude)
\* Componentwise sum of the fields of the particles of ps at pt.
FieldSum(ps, pt) ==
  [c \in 1..dim |-> SumSeq([i \in DOMAIN ps |-> Particle_E(ps[i], pt).value[c]])]

\* C6: E(point, exclude) evaluates, in list order, exactly the particles
\* whose label is not in exclude and returns the componentwise sum of their
\* fields (it raises when one of them lies at the point); with exclude = [L]
\* for a held L it leaves out the one particle labelled L and no other.
C6_Superposition ==
  op.name = "E" =>
    LET exclude == IF op.exclude.given THEN op.exclude.list ELSE {}
        kept == Kept(pre, exclude)
    IN /\ particles = pre
       /\ IF OccursAt(kept, op.point)
          THEN ret.exc = ZeroDivisionError
          ELSE /\ ret.exc = NoExc
               /\ calls = [i \in DOMAIN kept |-> Call(kept[i], op.point)]
               /\ ret.value = FieldSum(kept, op.point)
               /\ \A L \in Labels :
                    (exclude = {L} /\ Held(pre, L)) =>
                      /\ Len(calls) = Len(pre) - 1
                      /\ \A i \in DOMAIN pre :
                           (\E c \in DOMAIN calls : calls[c].p = pre[i])
                             <=> label(pre[i]) # L

\* C6 witness: E returned with exclude = ["A"] on a three-particle list that
\* holds the label A and an unlabelled particle.
C6_Witness ==
  /\ op.name = "E"
  /\ ret.exc = NoExc
  /\ op.exclude = Given({"A"})
  /\ Held(pre, "A")
  /\ Len(pre) = 3
  /\ \E i \in DOMAIN pre : label(pre[i]) = None

\* C7: F(label) for a held label evaluates the field at the labelled
\* particle's position of every other particle, never of the labelled one,
\* and returns that field times the labelled particle's charge; for a label
\* not held it raises label-not-found and evaluates nothing.
C7_Force ==
  op.name = "F" =>
    /\ particles = pre
    /\ IF Held(pre, op.label)
       THEN LET me == pre[CHOOSE i \in DOMAIN pre : label(pre[i]) = op.label]
                others == SelectSeq(pre, LAMBDA p : p # me)
            IN /\ \A c \in DOMAIN calls :
                    calls[c].p # me /\ calls[c].at = pos(me)
               /\ IF OccursAt(others, pos(me))
                  THEN ret.exc = ZeroDivisionError
                  ELSE /\ ret.exc = NoExc
                       /\ calls = [i \in DOMAIN others |-> Call(others[i], pos(me))]
                       /\ ret.value =
                            [c \in 1..dim |-> charge(me) * FieldSum(others, pos(me))[c]]
       ELSE ret.exc = LabelNotFound /\ calls = <<>>

\* C7 witness: F returned the force on a labelled particle from two others,
\* one of them unlabelled.
C7_Witness ==
  /\ op.name = "F"
  /\ ret.exc = NoExc
  /\ Len(calls) = 2
  /\ \E c \in DOMAIN calls : label(calls[c].p) = None

\* C8: when U() returns, the particle list is the list before the call, in
\* the same order.
C8_UFrame ==
  (op.name = "U" /\ ret.exc = NoExc) => particles = pre

\* C8 witness: U returned on a list of three particles.
C8_Witness ==
  /\ op.name = "U"
  /\ ret.exc = NoExc
  /\ Len(pre) = 3

\* k*q_a*q_b/|p_a - p_b| in units of k/VScale.
PairEnergy(a, b) == (charge(a) * charge(b) * VScale) \div delta_r(a, pos(b))

\* C9: for distinct particles at pairwise distinct positions U() evaluates
\* the potential of particle j at the position of particle i exactly once
\* for every i # j and never for i = j, and returns the sum over the
\* unordered pairs of k*q_i*q_j/|p_i - p_j|.
C9_PairEnergy ==
  (op.name = "U" /\ NoDuplicates(pre) /\ DistinctPositions(pre)) =>
    /\ ret.exc = NoExc
    /\ \A i, j \in DOMAIN pre :
         Cardinality({c \in DOMAIN calls :
                        calls[c].p = pre[j] /\ calls[c].at = pos(pre[i])})
           = IF i = j THEN 0 ELSE 1
    /\ Len(calls) = Len(pre) * (Len(pre) - 1)
    /\ ret.value =
         SumSeq([i \in DOMAIN pre |->
           SumSeq([j \in DOMAIN pre |->
             IF i < j THEN PairEnergy(pre[i], pre[j]) ELSE 0])])

\* C9 witness: U returned the energy of three particles at three positions,
\* one of them unlabelled.
C9_Witness ==
  /\ op.name = "U"
  /\ Len(pre) = 3 /\ NoDuplicates(pre) /\ DistinctPositions(pre)
  /\ \E i \in DOMAIN pre : label(pre[i]) = None
  /\ ret.exc = NoExc
  /\ ret.value # 0

\* C10 (as claimed): when U() fails with the singularity error the particle
\* list is the list before the call.
C10_UFailureRestores ==
  (op.name = "U" /\ ret.exc = ZeroDivisionError) => particles = pre

====
